---- MODULE Spec2Model ----
(***************************************************************************)
(* TWAB scroll: time-weighted average balance of a list of wallets over a  *)
(* date range (src/main.py).  The module models                            *)
(*   - a run of main(): the wallet queue, the outer pool of worker()       *)
(*     threads, process_wallet with its per-day batch, the incremental     *)
(*     cache (in memory and on disk) and the report, run after run         *)
(*     (specification Spec; SpecNonDecreasing when the end dates of        *)
(*     successive runs never decrease);                                    *)
(*   - get_balance's retry loop (specification SpecBalance);               *)
(*   - find_block_by_timestamp's bisection (specification SpecLocate);     *)
(*   - the process_day threads of the inner pools, the provider each of    *)
(*     their reads goes to and the lru_cache of get_block_timestamp they   *)
(*     share (specification SpecDay).                                      *)
(* Dates are day offsets from start_date; a Decimal is the integer number  *)
(* of its units; the strings written to the cache and the report are       *)
(* sequences of characters.                                                *)
(***************************************************************************)
EXTENDS Integers, Sequences, FiniteSets, TLC

VARIABLES
    \* ---- files and settings that outlive a run
    cacheFile,      \* balance_cache.json: key -> {total_balance, last_checked}
    report,         \* twab_results.csv: the rows of the last report written
    wallets,        \* wallets.txt, as read_wallets returns it
    DATE,           \* settings.DATE of the current run, as a day offset
    is_connected,   \* what each provider answers to the probe of this start
    \* ---- main() of the current run
    mainPc,         \* position of the main thread
    cache,          \* the dict load_cache returned, shared by the workers
    results,        \* the global results dict
    queue,          \* the Queue of wallets
    unfinished,     \* Queue.unfinished_tasks
    \* ---- worker threads (one per submit at line 185)
    pc,             \* position of each worker
    wallet,         \* the wallet a worker dequeued
    cache_data,     \* process_wallet: cache.get(cache_key, {})
    missing_dates,  \* process_wallet: the planned batch
    sampled,        \* the days process_day was called for in this call
    total_balance,  \* process_wallet: running sum
    \* ---- history of the run, for the properties
    outcome,        \* set of <<wallet, "ok" | "failed">> of finished tasks
    prevDATE,       \* end date of the last run that wrote report and cache
    \* ---- get_balance (SpecBalance)
    gbPc, gbWallet, gbBlock, retry_count, attempts, sleeps, replies, gbResult,
    \* ---- find_block_by_timestamp (SpecLocate)
    chain, target_timestamp, start_block, end_block, locPc, locResult,
    timestampCache, networkReads,
    \* ---- the process_day threads of the inner pools (SpecDay)
    threads,        \* each thread's arguments, position and locals
    lruCache,       \* the keys get_block_timestamp's lru_cache holds
    getBlockCalls,  \* web3.eth.get_block calls made, per (provider, block)
    providerReads   \* <<worker, provider>> of every provider read made

runVars == <<cacheFile, report, wallets, DATE, is_connected, mainPc, cache, results, queue,
             unfinished, pc, wallet, cache_data, missing_dates, sampled,
             total_balance, outcome, prevDATE>>
gbVars == <<gbPc, gbWallet, gbBlock, retry_count, attempts, sleeps, replies,
            gbResult>>
locVars == <<chain, target_timestamp, start_block, end_block, locPc,
             locResult, timestampCache, networkReads>>
dayVars == <<threads, lruCache, getBlockCalls, providerReads>>
vars == <<runVars, gbVars, locVars, dayVars>>

----------------------------------------------------------------------------
(* Bounds of the model *)

\* the last day a run may end on (settings.DATE - start_date, in days); a
\* run never ends before start_date
MaxDay == 2
\* settings.MAX_WALLETS: workers submitted per provider
MAX_WALLETS == 1

(* Settings and inputs *)

\* settings.RPC_URLS
RPC_URLS == <<"rpc1", "rpc2">>
\* settings.PRICE
PRICE == 2
\* start_date, the origin of the day offsets
start_date == 0
\* seconds in a day (line 76)
DaySeconds == 86400
\* the fractional digits kept by a Decimal division, as a power of ten
DecimalScale == 1000

\* the account lists wallets.txt may hold (checksummed addresses)
WalletLists == { <<"0xAAA", "0xBBB">>, <<"0xCCC", "0xCCC">> }
Wallets == {"0xAAA", "0xBBB", "0xCCC"}

web3_providers == 1..Len(RPC_URLS)
Workers == 1..(Len(RPC_URLS) * MAX_WALLETS)
\* the provider the i-th submitted worker is bound to (lines 183-185)
ProviderOf(w) == ((w - 1) \div MAX_WALLETS) + 1

----------------------------------------------------------------------------
(* Strings *)

Digits == <<"0", "1", "2", "3", "4", "5", "6", "7", "8", "9">>
DigitValue(c) == (CHOOSE i \in 1..10 : Digits[i] = c) - 1

\* str(Decimal(n)) for a non-negative integral Decimal
RECURSIVE str(_)
str(n) == IF n < 10 THEN <<Digits[n + 1]>>
          ELSE Append(str(n \div 10), Digits[(n % 10) + 1])

\* Decimal(s) for a string of digits
RECURSIVE Decimal(_)
Decimal(s) == IF Len(s) = 0 THEN 0
              ELSE Decimal(SubSeq(s, 1, Len(s) - 1)) * 10 + DigitValue(s[Len(s)])

\* wallet.lower()
lower(w) == CASE w = "0xAAA" -> "0xaaa"
              [] w = "0xBBB" -> "0xbbb"
              [] w = "0xCCC" -> "0xccc"
              [] OTHER -> w

\* datetime.isoformat() of start_date + d days, as <<year, month, day>>
isoformat(d) == <<2023, 10, 18 + d>>
\* datetime.fromisoformat(s), back to a day offset
fromisoformat(s) == s[3] - 18

----------------------------------------------------------------------------
(* Python dicts are functions with a finite domain *)

EmptyDict == [k \in {} |-> 0]
DictGet(d, k, default) == IF k \in DOMAIN d THEN d[k] ELSE default
DictSet(d, k, v) == [x \in (DOMAIN d) \cup {k} |-> IF x = k THEN v ELSE d[x]]

----------------------------------------------------------------------------
(* The provider: a synthetic chain with two blocks a day *)

\* web3.eth.block_number
latest_block == 2 * MaxDay + 3
\* web3.eth.get_block(n)['timestamp'], seconds since start_date 00:00
BlockTimestamp(n) == 43200 * n + 100
\* web3.eth.get_balance(wallet, block)
BalanceOf(w, n) == CASE w = "0xAAA" -> 10
                     [] w = "0xBBB" -> n + 1
                     [] OTHER -> 3 * n + 2
\* web3.from_wei(balance, 'ether'): an exact change of unit
from_wei(b) == b

\* line 47
MidBlock(lo, hi) == (lo + hi) \div 2
\* line 51
NextStart(mid_block) == mid_block + 1
\* NextEnd with the bound moved one block too far
NextEndSkips(mid_block) == mid_block - 2
\* line 53
NextEnd(mid_block) == mid_block - 1
\* ExhaustedResult returning the lower bound of the empty interval
ExhaustedResultStart(lo, hi) == lo
\* line 57
ExhaustedResult(lo, hi) == IF lo <= hi THEN lo ELSE hi

\* find_block_by_timestamp (lines 45-57) over the timestamps ts
RECURSIVE find_block_by_timestamp(_, _, _, _)
find_block_by_timestamp(ts, target, lo, hi) ==
    IF lo <= hi
    THEN LET mid_block == MidBlock(lo, hi)
             mid_timestamp == ts[mid_block]
         IN  IF mid_timestamp < target
             THEN find_block_by_timestamp(ts, target, NextStart(mid_block), hi)
             ELSE IF mid_timestamp > target
                  THEN find_block_by_timestamp(ts, target, lo, NextEnd(mid_block))
                  ELSE mid_block
    ELSE ExhaustedResult(lo, hi)

RunChain == [n \in 0..latest_block |-> BlockTimestamp(n)]

\* process_day (lines 75-83) when every provider call answers
process_day(w, d) ==
    LET target_end_timestamp == (start_date + d) * DaySeconds + DaySeconds - 1
        genesis_block == 0
        blk == find_block_by_timestamp(RunChain, target_end_timestamp,
                                       genesis_block, latest_block)
    IN  from_wei(BalanceOf(w, blk))

----------------------------------------------------------------------------
(* process_wallet's pure parts *)

\* lines 90, 93-96
last_checked_date(cd) ==
    IF "last_checked" \in DOMAIN cd THEN fromisoformat(cd["last_checked"])
    ELSE start_date
\* line 91
cached_total_balance(cd) ==
    Decimal(DictGet(cd, "total_balance", <<"0">>))
\* MissingDates with the last checked day planned again
MissingDatesFromLastChecked(cd, end_date) ==
    LET day_chunks == {start_date + i : i \in 0..(end_date - start_date)}
    IN  {d \in day_chunks : d >= last_checked_date(cd)}
\* lines 103-104
MissingDates(cd, end_date) ==
    LET day_chunks == {start_date + i : i \in 0..(end_date - start_date)}
    IN  {d \in day_chunks : d > last_checked_date(cd)}
\* UpToDate with a strict comparison
UpToDateStrict(cd, end_date) == last_checked_date(cd) > end_date
\* line 98
UpToDate(cd, end_date) == last_checked_date(cd) >= end_date
\* lines 114-117
NewEntry(total, end_date) ==
    [total_balance |-> str(total), last_checked |-> isoformat(end_date)]

\* Decimal division, rounded half-even at DecimalScale
DecimalDiv(a, b) ==
    LET q == (a * DecimalScale) \div b
        r == (a * DecimalScale) % b
    IN  IF 2 * r > b \/ (2 * r = b /\ q % 2 = 1) THEN q + 1 ELSE q
\* line 162
TotalDays(end_date) == (end_date - start_date) + 1
\* lines 119-120, in units of 1/DecimalScale
TWAB(total, total_days, eth_price) == DecimalDiv(total, total_days) * eth_price

----------------------------------------------------------------------------
(* A run of the program: specifications Spec and SpecNonDecreasing *)

NoWallet == ""
NA == <<"N", "/", "A">>

fileVars == <<cacheFile, report>>
settingVars == <<wallets, DATE, prevDATE, is_connected>>
localVars == <<wallet, cache_data, missing_dates, sampled, total_balance>>
otherVars == <<gbVars, locVars, dayVars>>

\* before main() runs: no dict, no queue, no worker
NotStarted ==
    /\ cache = EmptyDict
    /\ results = EmptyDict
    /\ queue = <<>>
    /\ unfinished = 0
    /\ pc = [w \in Workers |-> "unstarted"]
    /\ wallet = [w \in Workers |-> NoWallet]
    /\ cache_data = [w \in Workers |-> EmptyDict]
    /\ missing_dates = [w \in Workers |-> {}]
    /\ sampled = [w \in Workers |-> {}]
    /\ total_balance = [w \in Workers |-> 0]
    /\ outcome = {}

RunInit ==
    /\ cacheFile = EmptyDict
    /\ report = <<>>
    /\ wallets \in WalletLists
    /\ DATE \in start_date..MaxDay
    /\ is_connected \in [web3_providers -> BOOLEAN]
    /\ prevDATE = -1
    /\ mainPc = "connect"
    /\ NotStarted
\* Connect with one answering provider being enough
ConnectAny ==
    /\ mainPc = "connect"
    /\ mainPc' = IF \E web3 \in web3_providers : is_connected[web3]
                 THEN "main" ELSE "aborted"
    /\ UNCHANGED <<fileVars, settingVars, cache, results, queue, unfinished,
                   pc, localVars, outcome, otherVars>>

\* lines 23-29: every provider answers is_connected, or the import raises
Connect ==
    /\ mainPc = "connect"
    /\ mainPc' = IF \A web3 \in web3_providers : is_connected[web3]
                 THEN "main" ELSE "aborted"
    /\ UNCHANGED <<fileVars, settingVars, cache, results, queue, unfinished,
                   pc, localVars, outcome, otherVars>>

\* load_cache (lines 123-127)
load_cache(file) == file
\* save_cache (lines 129-138): str() of a str is the str itself
save_cache(c) ==
    [k \in DOMAIN c |-> [total_balance |-> c[k]["total_balance"],
                         last_checked |-> c[k]["last_checked"]]]

\* main, lines 156-180: read the wallets, load the cache, fill the queue
MainSetup ==
    /\ mainPc = "main"
    /\ cache' = load_cache(cacheFile)
    /\ results' = EmptyDict
    /\ queue' = wallets
    /\ unfinished' = Len(wallets)
    /\ mainPc' = "submit"
    /\ UNCHANGED <<fileVars, settingVars, pc, localVars, outcome, otherVars>>

\* main, lines 182-185: one worker per provider and per MAX_WALLETS is
\* submitted; a submitted worker is a thread at line 141
SubmitWorkers ==
    /\ mainPc = "submit"
    /\ pc' = [w \in Workers |-> "loop"]
    /\ mainPc' = "join"
    /\ UNCHANGED <<fileVars, settingVars, cache, results, queue, unfinished,
                   localVars, outcome, otherVars>>
\* Join with main going on to the report without waiting for anything
JoinNoWait ==
    /\ mainPc = "join"
    /\ mainPc' = "report"
    /\ UNCHANGED <<fileVars, settingVars, cache, results, queue, unfinished,
                   pc, localVars, outcome, otherVars>>

\* main, line 187: queue.join() returns once every task is done
Join ==
    /\ mainPc = "join"
    /\ unfinished = 0
    /\ mainPc' = "shutdown"
    /\ UNCHANGED <<fileVars, settingVars, cache, results, queue, unfinished,
                   pc, localVars, outcome, otherVars>>

\* main, line 182: leaving the with block waits for every worker to return
Shutdown ==
    /\ mainPc = "shutdown"
    /\ \A w \in Workers : pc[w] = "done"
    /\ mainPc' = "report"
    /\ UNCHANGED <<fileVars, settingVars, cache, results, queue, unfinished,
                   pc, localVars, outcome, otherVars>>

\* lines 194-196: one row of the report
ReportRow(idx, res) ==
    [Index |-> idx, Wallet |-> wallets[idx],
     TWAB |-> IF wallets[idx] \in DOMAIN res THEN str(res[wallets[idx]]) ELSE NA]
\* WriteReport with a row for every wallet that has a result and no other
WriteReportOfResults ==
    /\ mainPc = "report"
    /\ report' = SelectSeq([idx \in 1..Len(wallets) |-> ReportRow(idx, results)],
                           LAMBDA row : row.Wallet \in DOMAIN results)
    /\ mainPc' = "save"
    /\ UNCHANGED <<cacheFile, settingVars, cache, results, queue, unfinished,
                   pc, localVars, outcome, otherVars>>

\* main, lines 190-196
WriteReport ==
    /\ mainPc = "report"
    /\ report' = [idx \in 1..Len(wallets) |-> ReportRow(idx, results)]
    /\ mainPc' = "save"
    /\ UNCHANGED <<cacheFile, settingVars, cache, results, queue, unfinished,
                   pc, localVars, outcome, otherVars>>

\* main, line 199
SaveCache ==
    /\ mainPc = "save"
    /\ cacheFile' = save_cache(cache)
    /\ prevDATE' = DATE
    /\ mainPc' = "exit"
    /\ UNCHANGED <<report, wallets, DATE, is_connected, cache, results,
                   queue, unfinished, pc, localVars, outcome, otherVars>>

\* the program is started again with settings.DATE = d
Restart(d) ==
    /\ mainPc \in {"exit", "aborted"}
    /\ DATE' = d
    /\ is_connected' \in [web3_providers -> BOOLEAN]
    /\ mainPc' = "connect"
    /\ cache' = EmptyDict
    /\ results' = EmptyDict
    /\ queue' = <<>>
    /\ unfinished' = 0
    /\ pc' = [w \in Workers |-> "unstarted"]
    /\ wallet' = [w \in Workers |-> NoWallet]
    /\ cache_data' = [w \in Workers |-> EmptyDict]
    /\ missing_dates' = [w \in Workers |-> {}]
    /\ sampled' = [w \in Workers |-> {}]
    /\ total_balance' = [w \in Workers |-> 0]
    /\ outcome' = {}
    /\ UNCHANGED <<fileVars, wallets, prevDATE, otherVars>>

\* the next run, with any end date
NextRun == \E d \in start_date..MaxDay : Restart(d)
\* the next run, with an end date no earlier than the last one
NextRunLater == \E d \in DATE..MaxDay : Restart(d)

----------------------------------------------------------------------------
(* worker (lines 140-152) and process_wallet (lines 86-121) *)

\* line 141: while not queue.empty()
WorkerLoop(w) ==
    /\ pc[w] = "loop"
    /\ pc' = [pc EXCEPT ![w] = IF queue = <<>> THEN "done" ELSE "get"]
    /\ UNCHANGED <<fileVars, settingVars, mainPc, cache, results, queue,
                   unfinished, localVars, outcome, otherVars>>

\* line 142: queue.get() blocks while the queue is empty
WorkerGet(w) ==
    /\ pc[w] = "get"
    /\ queue # <<>>
    /\ wallet' = [wallet EXCEPT ![w] = Head(queue)]
    /\ queue' = Tail(queue)
    /\ pc' = [pc EXCEPT ![w] = "process_wallet"]
    /\ UNCHANGED <<fileVars, settingVars, mainPc, cache, results, unfinished,
                   cache_data, missing_dates, sampled, total_balance, outcome,
                   otherVars>>

\* lines 87-104: read the cache entry and plan the batch
ProcessWalletPlan(w) ==
    /\ pc[w] = "process_wallet"
    /\ LET cache_key == lower(wallet[w])
           cd == DictGet(cache, cache_key, EmptyDict)
       IN  /\ cache_data' = [cache_data EXCEPT ![w] = cd]
           /\ IF UpToDate(cd, DATE)
              THEN /\ total_balance' =
                         [total_balance EXCEPT ![w] = cached_total_balance(cd)]
                   /\ missing_dates' = [missing_dates EXCEPT ![w] = {}]
                   /\ pc' = [pc EXCEPT ![w] = "return"]
              ELSE /\ total_balance' = [total_balance EXCEPT ![w] = 0]
                   /\ missing_dates' =
                         [missing_dates EXCEPT ![w] = MissingDates(cd, DATE)]
                   /\ pc' = [pc EXCEPT ![w] = "batch"]
    /\ UNCHANGED <<fileVars, settingVars, mainPc, cache, results, queue,
                   unfinished, wallet, sampled, outcome, otherVars>>

\* the sum of process_day over the days of a batch (lines 108-110)
RECURSIVE SumOfDays(_, _)
SumOfDays(w, days) ==
    IF days = {} THEN 0
    ELSE LET d == CHOOSE x \in days : TRUE
         IN  process_day(w, d) + SumOfDays(w, days \ {d})

\* lines 106-117: one process_day per missing date runs in the inner pool,
\* which touches nothing but the provider; every future returns a balance,
\* the cached total is added and the entry is written
BatchReturns(w) ==
    /\ pc[w] = "batch"
    /\ sampled' = [sampled EXCEPT ![w] = missing_dates[w]]
    /\ LET total == total_balance[w]
                    + SumOfDays(wallet[w], missing_dates[w])
                    + cached_total_balance(cache_data[w])
       IN  /\ total_balance' = [total_balance EXCEPT ![w] = total]
           /\ cache' = DictSet(cache, lower(wallet[w]), NewEntry(total, DATE))
    /\ pc' = [pc EXCEPT ![w] = "return"]
    /\ UNCHANGED <<fileVars, settingVars, mainPc, results, queue, unfinished,
                   wallet, cache_data, missing_dates, outcome, otherVars>>

\* BatchRaises with the days that did return checkpointed in the cache
BatchRaisesCheckpoints(w) ==
    /\ pc[w] = "batch"
    /\ sampled' = [sampled EXCEPT ![w] = missing_dates[w]]
    /\ \E failed \in (SUBSET missing_dates[w]) \ {{}} :
          LET total == SumOfDays(wallet[w], missing_dates[w] \ failed)
                       + cached_total_balance(cache_data[w])
          IN  /\ total_balance' = [total_balance EXCEPT ![w] = total]
              /\ cache' = DictSet(cache, lower(wallet[w]), NewEntry(total, DATE))
    /\ pc' = [pc EXCEPT ![w] = "except"]
    /\ UNCHANGED <<fileVars, settingVars, mainPc, results, queue, unfinished,
                   wallet, cache_data, missing_dates, outcome, otherVars>>

\* lines 106-109: the future of some day raises (get_balance exhausted its
\* retries, or any provider error); the with block waits for the other
\* futures and future.result() raises out of process_wallet
BatchRaises(w) ==
    /\ pc[w] = "batch"
    /\ sampled' = [sampled EXCEPT ![w] = missing_dates[w]]
    /\ pc' = [pc EXCEPT ![w] = "except"]
    /\ UNCHANGED <<fileVars, settingVars, mainPc, cache, results, queue,
                   unfinished, wallet, cache_data, missing_dates,
                   total_balance, outcome, otherVars>>

\* lines 119-121 and 146-148: process_wallet returns, the worker records
WorkerRecord(w) ==
    /\ pc[w] = "return"
    /\ results' = DictSet(results, wallet[w],
                          TWAB(total_balance[w], TotalDays(DATE), PRICE))
    /\ outcome' = outcome \cup {<<wallet[w], "ok">>}
    /\ pc' = [pc EXCEPT ![w] = "finally"]
    /\ UNCHANGED <<fileVars, settingVars, mainPc, cache, queue, unfinished,
                   localVars, otherVars>>

\* lines 151-152 after line 148: queue.task_done(), and back to the loop
\* test; the locals of the call are gone
WorkerTaskDone(w) ==
    /\ pc[w] = "finally"
    /\ unfinished' = unfinished - 1
    /\ pc' = [pc EXCEPT ![w] = "loop"]
    /\ wallet' = [wallet EXCEPT ![w] = NoWallet]
    /\ cache_data' = [cache_data EXCEPT ![w] = EmptyDict]
    /\ missing_dates' = [missing_dates EXCEPT ![w] = {}]
    /\ sampled' = [sampled EXCEPT ![w] = {}]
    /\ total_balance' = [total_balance EXCEPT ![w] = 0]
    /\ UNCHANGED <<fileVars, settingVars, mainPc, cache, results, queue,
                   outcome, otherVars>>

\* WorkerExcept with a result recorded for the failed wallet
WorkerExceptRecords(w) ==
    /\ pc[w] = "except"
    /\ results' = DictSet(results, wallet[w],
                          TWAB(total_balance[w], TotalDays(DATE), PRICE))
    /\ outcome' = outcome \cup {<<wallet[w], "failed">>}
    /\ unfinished' = unfinished - 1
    /\ pc' = [pc EXCEPT ![w] = "loop"]
    /\ wallet' = [wallet EXCEPT ![w] = NoWallet]
    /\ cache_data' = [cache_data EXCEPT ![w] = EmptyDict]
    /\ missing_dates' = [missing_dates EXCEPT ![w] = {}]
    /\ sampled' = [sampled EXCEPT ![w] = {}]
    /\ total_balance' = [total_balance EXCEPT ![w] = 0]
    /\ UNCHANGED <<fileVars, settingVars, mainPc, cache, queue, otherVars>>

\* lines 149-152: the error is caught and logged, then queue.task_done(),
\* and back to the loop test
WorkerExcept(w) ==
    /\ pc[w] = "except"
    /\ outcome' = outcome \cup {<<wallet[w], "failed">>}
    /\ unfinished' = unfinished - 1
    /\ pc' = [pc EXCEPT ![w] = "loop"]
    /\ wallet' = [wallet EXCEPT ![w] = NoWallet]
    /\ cache_data' = [cache_data EXCEPT ![w] = EmptyDict]
    /\ missing_dates' = [missing_dates EXCEPT ![w] = {}]
    /\ sampled' = [sampled EXCEPT ![w] = {}]
    /\ total_balance' = [total_balance EXCEPT ![w] = 0]
    /\ UNCHANGED <<fileVars, settingVars, mainPc, cache, results, queue,
                   otherVars>>

\* get_balance and find_block_by_timestamp at rest
BalanceIdle ==
    /\ gbPc = "idle" /\ gbWallet = NoWallet /\ gbBlock = 0 /\ retry_count = 0
    /\ attempts = 0 /\ sleeps = <<>> /\ replies = <<>> /\ gbResult = 0
LocateIdle ==
    /\ chain = <<>> /\ target_timestamp = 0 /\ start_block = 0
    /\ end_block = 0 /\ locPc = "idle" /\ locResult = 0
    /\ timestampCache = EmptyDict /\ networkReads = 0
\* no process_day thread
DayIdle ==
    /\ threads = <<>> /\ lruCache = {} /\ getBlockCalls = EmptyDict
    /\ providerReads = {}

Init == RunInit /\ BalanceIdle /\ LocateIdle /\ DayIdle

\* the steps of one run
RunStep ==
    \/ Connect
    \/ MainSetup
    \/ SubmitWorkers
    \/ Join
    \/ Shutdown
    \/ WriteReport
    \/ SaveCache
    \/ \E w \in Workers : WorkerLoop(w)
    \/ \E w \in Workers : WorkerGet(w)
    \/ \E w \in Workers : ProcessWalletPlan(w)
    \/ \E w \in Workers : BatchReturns(w)
    \/ \E w \in Workers : BatchRaises(w)
    \/ \E w \in Workers : WorkerRecord(w)
    \/ \E w \in Workers : WorkerExcept(w)
    \/ \E w \in Workers : WorkerTaskDone(w)

Next == RunStep \/ NextRun
Spec == Init /\ [][Next]_vars

\* runs whose end dates never decrease
NextNonDecreasing == RunStep \/ NextRunLater
SpecNonDecreasing == Init /\ [][NextNonDecreasing]_vars

----------------------------------------------------------------------------
(* get_balance (lines 60-72): specification SpecBalance *)

\* line 62: while retry_count < 5
MaxRetries == 5

RECURSIVE Pow2(_)
Pow2(n) == IF n = 0 THEN 1 ELSE 2 * Pow2(n - 1)
\* line 69: the duration slept after the retry_count-th rate limit
Backoff(count) == Pow2(count)

BalanceInit ==
    /\ gbPc = "loop"
    /\ gbWallet \in Wallets
    /\ gbBlock \in 0..latest_block
    /\ retry_count = 0
    /\ attempts = 0
    /\ sleeps = <<>>
    /\ replies = <<>>
    /\ gbResult = 0

\* lines 62-65: the read answers, get_balance returns the balance in ether
GetBalanceReturns ==
    /\ gbPc = "loop"
    /\ retry_count < MaxRetries
    /\ attempts' = attempts + 1
    /\ replies' = Append(replies, "ok")
    /\ gbResult' = from_wei(BalanceOf(gbWallet, gbBlock))
    /\ gbPc' = "returned"
    /\ UNCHANGED <<runVars, locVars, dayVars, gbWallet, gbBlock, retry_count, sleeps>>

\* lines 62-69: the read raises an error naming 429: count it and sleep
GetBalanceRateLimited ==
    /\ gbPc = "loop"
    /\ retry_count < MaxRetries
    /\ attempts' = attempts + 1
    /\ replies' = Append(replies, "429")
    /\ retry_count' = retry_count + 1
    /\ sleeps' = Append(sleeps, Backoff(retry_count + 1))
    /\ UNCHANGED <<runVars, locVars, dayVars, gbPc, gbWallet, gbBlock, gbResult>>
\* GetBalanceError with a backoff slept before the error is raised again
GetBalanceErrorSleeps ==
    /\ gbPc = "loop"
    /\ retry_count < MaxRetries
    /\ attempts' = attempts + 1
    /\ replies' = Append(replies, "error")
    /\ sleeps' = Append(sleeps, Backoff(retry_count + 1))
    /\ gbPc' = "raised"
    /\ UNCHANGED <<runVars, locVars, dayVars, gbWallet, gbBlock, retry_count,
                   gbResult>>

\* lines 62-71: the read raises any other error, which is raised again
GetBalanceError ==
    /\ gbPc = "loop"
    /\ retry_count < MaxRetries
    /\ attempts' = attempts + 1
    /\ replies' = Append(replies, "error")
    /\ gbPc' = "raised"
    /\ UNCHANGED <<runVars, locVars, dayVars, gbWallet, gbBlock, retry_count, sleeps, gbResult>>

\* line 72: the loop ends, get_balance raises
GetBalanceExhausted ==
    /\ gbPc = "loop"
    /\ ~(retry_count < MaxRetries)
    /\ gbPc' = "exhausted"
    /\ UNCHANGED <<runVars, locVars, dayVars, gbWallet, gbBlock, retry_count, attempts, sleeps, replies,
                   gbResult>>

NextBalance ==
    \/ GetBalanceReturns
    \/ GetBalanceRateLimited
    \/ GetBalanceError
    \/ GetBalanceExhausted

\* a run that never starts: main() at rest
RunIdle ==
    /\ cacheFile = EmptyDict /\ report = <<>> /\ wallets = <<>> /\ DATE = 0
    /\ is_connected = [web3 \in web3_providers |-> TRUE]
    /\ prevDATE = -1 /\ mainPc = "idle" /\ NotStarted

InitBalance == BalanceInit /\ RunIdle /\ LocateIdle /\ DayIdle
SpecBalance == InitBalance /\ [][NextBalance]_vars

----------------------------------------------------------------------------
(* find_block_by_timestamp (lines 44-57) step by step, with the memo of    *)
(* get_block_timestamp (lines 38-41): specification SpecLocate             *)

\* the highest head block and the latest timestamp of the chains searched
MaxHead == 3
MaxTimestamp == 5

\* the strictly increasing block -> timestamp mappings over [0, head]
Chains ==
    UNION { { c \in [0..head -> 1..MaxTimestamp] :
                \A n \in 0..(head - 1) : c[n] < c[n + 1] } : head \in 0..MaxHead }
HeadOf(c) == Cardinality(DOMAIN c) - 1

LocateInit ==
    /\ chain \in Chains
    /\ target_timestamp \in 0..(MaxTimestamp + 1)
    /\ start_block = 0
    /\ end_block = HeadOf(chain)
    /\ locPc = "loop"
    /\ locResult = 0
    /\ timestampCache = EmptyDict
    /\ networkReads = 0

\* get_block_timestamp (lines 38-41): the value, from the memo when it is there
get_block_timestamp(n) == DictGet(timestampCache, n, chain[n])
\* the memo and the count of web3.eth.get_block calls after a lookup of n
Memoize(n) ==
    /\ timestampCache' = DictSet(timestampCache, n, get_block_timestamp(n))
    /\ networkReads' = IF n \in DOMAIN timestampCache THEN networkReads
                       ELSE networkReads + 1

\* lines 46-51: the midpoint is earlier than the target
LocateUpperHalf ==
    /\ locPc = "loop"
    /\ start_block <= end_block
    /\ LET mid_block == MidBlock(start_block, end_block)
       IN  /\ get_block_timestamp(mid_block) < target_timestamp
           /\ Memoize(mid_block)
           /\ start_block' = NextStart(mid_block)
    /\ UNCHANGED <<runVars, gbVars, dayVars, chain, target_timestamp, end_block, locPc, locResult>>

\* lines 46-53: the midpoint is later than the target
LocateLowerHalf ==
    /\ locPc = "loop"
    /\ start_block <= end_block
    /\ LET mid_block == MidBlock(start_block, end_block)
       IN  /\ get_block_timestamp(mid_block) > target_timestamp
           /\ Memoize(mid_block)
           /\ end_block' = NextEnd(mid_block)
    /\ UNCHANGED <<runVars, gbVars, dayVars, chain, target_timestamp, start_block, locPc, locResult>>

\* lines 46-55: the midpoint has the target's timestamp
LocateFound ==
    /\ locPc = "loop"
    /\ start_block <= end_block
    /\ LET mid_block == MidBlock(start_block, end_block)
       IN  /\ get_block_timestamp(mid_block) = target_timestamp
           /\ Memoize(mid_block)
           /\ locResult' = mid_block
    /\ locPc' = "returned"
    /\ UNCHANGED <<runVars, gbVars, dayVars, chain, target_timestamp, start_block, end_block>>

\* line 57: the interval is empty
LocateExhausted ==
    /\ locPc = "loop"
    /\ ~(start_block <= end_block)
    /\ locResult' = ExhaustedResult(start_block, end_block)
    /\ locPc' = "returned"
    /\ UNCHANGED <<runVars, gbVars, dayVars, chain, target_timestamp, start_block, end_block,
                   timestampCache, networkReads>>

\* line 80: process_day searches for another day's timestamp, same provider
LocateCall ==
    /\ locPc = "returned"
    /\ \E t \in 0..(MaxTimestamp + 1) : target_timestamp' = t
    /\ start_block' = 0
    /\ end_block' = HeadOf(chain)
    /\ locPc' = "loop"
    /\ locResult' = 0
    /\ UNCHANGED <<runVars, gbVars, dayVars, chain, timestampCache, networkReads>>

NextLocate ==
    \/ LocateUpperHalf
    \/ LocateLowerHalf
    \/ LocateFound
    \/ LocateExhausted
    \/ LocateCall

InitLocate == LocateInit /\ RunIdle /\ BalanceIdle /\ DayIdle
SpecLocate == InitLocate /\ [][NextLocate]_vars

----------------------------------------------------------------------------
(* process_day (lines 75-83) thread by thread, with the provider each read  *)
(* goes to and get_block_timestamp's lru_cache (lines 38-41) shared by the  *)
(* threads: specification SpecDay.  The chain is RunChain on every          *)
(* provider.  find_block_by_timestamp's own lru_cache is left out: a call   *)
(* it would answer makes only lookups that hit get_block_timestamp's.       *)

\* settings.WORKERS: threads of the inner pool (line 106)
WORKERS == 2
DayThreads == 1..WORKERS

\* line 76
target_end_timestamp(d) == (start_date + d) * DaySeconds + DaySeconds - 1

\* a process_day call some worker's process_wallet is about to submit
PendingDay(w, d) ==
    [worker |-> w, current_date |-> d, web3 |-> 0, pc |-> "pending",
     start_block |-> 0, end_block |-> 0, end_block_found |-> 0,
     raisedBy |-> "none", reply |-> "none", reads |-> 0]

\* the days of one batch are distinct (line 104)
DayInit ==
    /\ threads \in [DayThreads ->
                      {PendingDay(w, d) : w \in Workers,
                                          d \in start_date..MaxDay}]
    /\ \A s, t \in DayThreads :
          (s # t /\ threads[s].worker = threads[t].worker) =>
             threads[s].current_date # threads[t].current_date
    /\ lruCache = {}
    /\ getBlockCalls = EmptyDict
    /\ providerReads = {}

\* the key of get_block_timestamp's lru_cache: its arguments
CacheKey(th) == <<th.web3, MidBlock(th.start_block, th.end_block)>>
\* a read of thread th goes to the provider th holds
ReadBy(th) == providerReads \cup {<<th.worker, th.web3>>}
\* the call raises through process_day: the future holds the error
Raised(th, by, rep, n) ==
    [th EXCEPT !.pc = "raised", !.raisedBy = by, !.reply = rep, !.reads = n,
               !.start_block = 0, !.end_block = 0]
\* lines 49-55 for the timestamp of the midpoint
Bisect(th) ==
    LET mid_block == MidBlock(th.start_block, th.end_block)
        mid_timestamp == RunChain[mid_block]
        target == target_end_timestamp(th.current_date)
    IN  IF mid_timestamp < target
        THEN [th EXCEPT !.start_block = NextStart(mid_block)]
        ELSE IF mid_timestamp > target
             THEN [th EXCEPT !.end_block = NextEnd(mid_block)]
             ELSE [th EXCEPT !.pc = "balance", !.end_block_found = mid_block,
                             !.start_block = 0, !.end_block = 0]

\* DaySubmit with the provider picked by the day instead of the worker
DaySubmitByDay(t) ==
    /\ threads[t].pc = "pending"
    /\ threads' = [threads EXCEPT
                     ![t].web3 = (threads[t].current_date % Len(RPC_URLS)) + 1,
                     ![t].pc = "head"]
    /\ UNCHANGED <<runVars, gbVars, locVars, lruCache, getBlockCalls,
                   providerReads>>

\* lines 107, 145, 185: process_day is submitted with the web3 that
\* process_wallet got from its worker, which got it when it was submitted
DaySubmit(t) ==
    /\ threads[t].pc = "pending"
    /\ threads' = [threads EXCEPT
                     ![t].web3 = ProviderOf(threads[t].worker),
                     ![t].pc = "head"]
    /\ UNCHANGED <<runVars, gbVars, locVars, lruCache, getBlockCalls,
                   providerReads>>

\* lines 78-80: web3.eth.block_number answers, the search starts
DayHead(t) ==
    /\ threads[t].pc = "head"
    /\ providerReads' = ReadBy(threads[t])
    /\ threads' = [threads EXCEPT ![t].pc = "locate",
                                  ![t].start_block = 0,
                                  ![t].end_block = latest_block]
    /\ UNCHANGED <<runVars, gbVars, locVars, lruCache, getBlockCalls>>

\* line 78: web3.eth.block_number raises; nothing catches it
DayHeadRaises(t) ==
    /\ threads[t].pc = "head"
    /\ providerReads' = ReadBy(threads[t])
    /\ \E rep \in {"429", "error"} :
          threads' = [threads EXCEPT ![t] = Raised(@, "head", rep, 1)]
    /\ UNCHANGED <<runVars, gbVars, locVars, lruCache, getBlockCalls>>

\* lines 46-55: the lru_cache holds the midpoint's timestamp
DayLookupHit(t) ==
    /\ threads[t].pc = "locate"
    /\ threads[t].start_block <= threads[t].end_block
    /\ CacheKey(threads[t]) \in lruCache
    /\ threads' = [threads EXCEPT ![t] = Bisect(@)]
    /\ UNCHANGED <<runVars, gbVars, locVars, lruCache, getBlockCalls,
                   providerReads>>

\* line 48: the lru_cache does not hold the key; it calls the function
\* without holding its lock
DayLookupMiss(t) ==
    /\ threads[t].pc = "locate"
    /\ threads[t].start_block <= threads[t].end_block
    /\ CacheKey(threads[t]) \notin lruCache
    /\ threads' = [threads EXCEPT ![t].pc = "get_block"]
    /\ UNCHANGED <<runVars, gbVars, locVars, lruCache, getBlockCalls,
                   providerReads>>

\* lines 40-41 and 49-55: web3.eth.get_block answers, the lru_cache stores
\* the timestamp
DayGetBlock(t) ==
    /\ threads[t].pc = "get_block"
    /\ providerReads' = ReadBy(threads[t])
    /\ getBlockCalls' =
          DictSet(getBlockCalls, CacheKey(threads[t]),
                  DictGet(getBlockCalls, CacheKey(threads[t]), 0) + 1)
    /\ lruCache' = lruCache \cup {CacheKey(threads[t])}
    /\ threads' = [threads EXCEPT ![t] = Bisect([@ EXCEPT !.pc = "locate"])]
    /\ UNCHANGED <<runVars, gbVars, locVars>>

\* line 40: web3.eth.get_block raises; neither get_block_timestamp nor
\* find_block_by_timestamp nor process_day catches it, nothing is stored
DayGetBlockRaises(t) ==
    /\ threads[t].pc = "get_block"
    /\ providerReads' = ReadBy(threads[t])
    /\ \E rep \in {"429", "error"} :
          threads' = [threads EXCEPT ![t] = Raised(@, "timestamp", rep, 1)]
    /\ UNCHANGED <<runVars, gbVars, locVars, lruCache, getBlockCalls>>

\* line 57: the interval is empty
DayLocateExhausted(t) ==
    /\ threads[t].pc = "locate"
    /\ ~(threads[t].start_block <= threads[t].end_block)
    /\ threads' = [threads EXCEPT
                     ![t].end_block_found =
                        ExhaustedResult(threads[t].start_block,
                                        threads[t].end_block),
                     ![t].pc = "balance",
                     ![t].start_block = 0, ![t].end_block = 0]
    /\ UNCHANGED <<runVars, gbVars, locVars, lruCache, getBlockCalls,
                   providerReads>>

\* lines 82-83: get_balance returns
DayBalanceReturns(t) ==
    /\ threads[t].pc = "balance"
    /\ providerReads' = ReadBy(threads[t])
    /\ threads' = [threads EXCEPT ![t].pc = "returned"]
    /\ UNCHANGED <<runVars, gbVars, locVars, lruCache, getBlockCalls>>

\* line 82: get_balance raises, after MaxRetries rate-limited reads or at
\* the first other error
DayBalanceRaises(t) ==
    /\ threads[t].pc = "balance"
    /\ providerReads' = ReadBy(threads[t])
    /\ \/ threads' = [threads EXCEPT
                        ![t] = Raised(@, "balance", "429", MaxRetries)]
       \/ \E n \in 1..MaxRetries :
             threads' = [threads EXCEPT
                           ![t] = Raised(@, "balance", "error", n)]
    /\ UNCHANGED <<runVars, gbVars, locVars, lruCache, getBlockCalls>>

NextDay ==
    \/ \E t \in DayThreads : DaySubmit(t)
    \/ \E t \in DayThreads : DayHead(t)
    \/ \E t \in DayThreads : DayHeadRaises(t)
    \/ \E t \in DayThreads : DayLookupHit(t)
    \/ \E t \in DayThreads : DayLookupMiss(t)
    \/ \E t \in DayThreads : DayGetBlock(t)
    \/ \E t \in DayThreads : DayGetBlockRaises(t)
    \/ \E t \in DayThreads : DayLocateExhausted(t)
    \/ \E t \in DayThreads : DayBalanceReturns(t)
    \/ \E t \in DayThreads : DayBalanceRaises(t)

InitDay == DayInit /\ RunIdle /\ BalanceIdle /\ LocateIdle
SpecDay == InitDay /\ [][NextDay]_vars

----------------------------------------------------------------------------
(* Properties *)

\* the wallet a cache key belongs to
KeyWallet(k) == CHOOSE a \in Wallets : lower(a) = k
\* the wallet occurs once in wallets.txt
Unique(a) == Cardinality({i \in 1..Len(wallets) : wallets[i] = a}) = 1
\* the entry of wallet a in a cache dict, {} when there is none
EntryOf(c, a) == DictGet(c, lower(a), EmptyDict)
\* a cache entry stands for the sum of every day from start_date to its
\* last_checked
ExactSum(c) ==
    \A k \in DOMAIN c :
       Decimal(c[k]["total_balance"]) =
          SumOfDays(KeyWallet(k),
                    start_date..fromisoformat(c[k]["last_checked"]))

\* C1: after any sequence of runs with non-decreasing end dates, every cache
\* entry's total_balance is the sum of the end-of-day balances of every day
\* from start_date through its last_checked, in memory and on disk.
C1_CacheIsExactSum == ExactSum(cache) /\ ExactSum(cacheFile)

\* C2: on a first run for an account without a cache entry, process_wallet
\* samples every day from start_date through the end date; with a constant
\* balance of 10 over 3 days and price 2 the TWAB is 20.
C2_FirstRunSamplesEveryDay ==
    \A w \in Workers :
       (pc[w] = "return" /\ cache_data[w] = EmptyDict) =>
          /\ sampled[w] = start_date..DATE
          /\ Cardinality(sampled[w]) = TotalDays(DATE)
          /\ (wallet[w] = "0xAAA" /\ TotalDays(DATE) = 3) =>
                TWAB(total_balance[w], TotalDays(DATE), PRICE)
                   = 20 * DecimalScale

\* C3: when a day of the batch fails, the account's cache entry is what it
\* was before the call (no entry if there was none), so that the same
\* missing range is planned from it again; what main saves for the account
\* is what it loaded.
C3_AllOrNothing ==
    /\ \A w \in Workers :
          (pc[w] = "except" /\ Unique(wallet[w])) =>
             /\ EntryOf(cache, wallet[w]) = cache_data[w]
             /\ (lower(wallet[w]) \in DOMAIN cache) = (cache_data[w] # EmptyDict)
             /\ MissingDates(EntryOf(cache, wallet[w]), DATE) = missing_dates[w]
    /\ \A a \in Wallets :
          (<<a, "failed">> \in outcome /\ Unique(a)) =>
             /\ EntryOf(cache, a) = EntryOf(cacheFile, a)
             /\ (lower(a) \in DOMAIN cache) = (lower(a) \in DOMAIN cacheFile)

\* C3 witness: a batch failed for an account that had an entry.
C3_Witness ==
    \E w \in Workers :
       /\ pc[w] = "except" /\ Unique(wallet[w])
       /\ cache_data[w] # EmptyDict
       /\ missing_dates[w] # {}

\* C4: a run that has passed the connectivity check and has not finished
\* can always take a step: no worker stays blocked in queue.get() with
\* main waiting for it.
C4_RunCompletes ==
    (mainPc \in {"main", "submit", "join", "shutdown", "report", "save"})
       => ENABLED RunStep

\* C5: with an entry at day K and an end date K+M, M >= 1, a successful
\* process_wallet samples exactly the days K+1..K+M and stores the prior
\* total plus their sum, with last_checked at day K+M.
C5_Incremental ==
    \A w \in Workers :
       (/\ pc[w] = "return"
        /\ cache_data[w] # EmptyDict
        /\ last_checked_date(cache_data[w]) < DATE) =>
          LET K == fromisoformat(cache_data[w]["last_checked"])
              prior == Decimal(cache_data[w]["total_balance"])
              added == SumOfDays(wallet[w], (K + 1)..DATE)
          IN  /\ sampled[w] = (K + 1)..DATE
              /\ total_balance[w] = prior + added
              /\ EntryOf(cache, wallet[w]) =
                    [total_balance |-> str(prior + added),
                     last_checked |-> isoformat(DATE)]

\* C5 witness: an incremental call has returned.
C5_Witness ==
    \E w \in Workers :
       /\ pc[w] = "return"
       /\ cache_data[w] # EmptyDict
       /\ last_checked_date(cache_data[w]) < DATE
       /\ sampled[w] # {}

\* the previous run ended on this run's end date and reported a TWAB for a
ReportedBefore(a) ==
    /\ prevDATE = DATE
    /\ \E i \in DOMAIN report : report[i].Wallet = a /\ report[i].TWAB # NA

\* C6: in a run repeated with the cache the previous run left and the same
\* range, every account that run reported takes the short-circuit: no
\* process_day call, the cache entry unchanged, the same TWAB.
C6_Idempotent ==
    /\ \A w \in Workers :
          (pc[w] \in {"batch", "except"}) => ~ReportedBefore(wallet[w])
    /\ \A w \in Workers :
          (pc[w] = "finally" /\ ReportedBefore(wallet[w])) =>
             /\ missing_dates[w] = {} /\ sampled[w] = {}
             /\ EntryOf(cache, wallet[w]) = EntryOf(cacheFile, wallet[w])
             /\ (lower(wallet[w]) \in DOMAIN cache)
                   = (lower(wallet[w]) \in DOMAIN cacheFile)
             /\ \A i \in DOMAIN report :
                   report[i].Wallet = wallet[w] =>
                      report[i].TWAB = str(results[wallet[w]])
    /\ (mainPc = "report" /\ prevDATE = DATE) =>
          \A i \in DOMAIN report :
             report[i].TWAB # NA => ReportRow(i, results) = report[i]

\* C6 witness: a repeated run served an account with an entry from the cache.
C6_Witness ==
    \E w \in Workers :
       /\ pc[w] = "finally" /\ ReportedBefore(wallet[w])
       /\ cache_data[w] # EmptyDict
       /\ DATE > start_date

\* C7: when every read is rate limited, get_balance reads 5 times and then
\* fails, having slept 2, 4, 8, 16 between the attempts and at no other time.
C7_RetryExhaustion ==
    (gbPc = "exhausted") =>
       /\ attempts = 5
       /\ \A i \in 1..Len(replies) : replies[i] = "429"
       /\ sleeps = <<2, 4, 8, 16>>

\* the target lies strictly between the timestamps of blocks n and n + 1
Between(n) ==
    /\ n \in DOMAIN chain /\ (n + 1) \in DOMAIN chain
    /\ chain[n] < target_timestamp /\ target_timestamp < chain[n + 1]

\* C8: for a target strictly between the timestamps of two consecutive
\* blocks n and n + 1, find_block_by_timestamp(provider, target, 0, head)
\* returns n.
C8_LowerBlock ==
    \A n \in 0..MaxHead :
       Between(n) =>
          /\ find_block_by_timestamp(chain, target_timestamp, 0, HeadOf(chain)) = n
          /\ (locPc = "returned" => locResult = n)

\* C8 witness: a search for a target between two blocks has returned.
C8_Witness ==
    /\ locPc = "returned"
    /\ \E n \in 1..MaxHead : Between(n) /\ locResult = n

\* C9: for a target equal to the timestamp of block n,
\* find_block_by_timestamp(provider, target, 0, head) returns n.
C9_ExactBlock ==
    \A n \in DOMAIN chain :
       (chain[n] = target_timestamp) =>
          /\ find_block_by_timestamp(chain, target_timestamp, 0, HeadOf(chain)) = n
          /\ (locPc = "returned" => locResult = n)

\* C9 witness: a search for the timestamp of a block has returned it.
C9_Witness ==
    /\ locPc = "returned"
    /\ \E n \in DOMAIN chain :
          n > 0 /\ chain[n] = target_timestamp /\ locResult = n

\* what process_wallet stores and reports for wallet a given the cache file
\* of the run alone
ExpectedTotal(a) ==
    LET cd == EntryOf(cacheFile, a)
    IN  IF UpToDate(cd, DATE) THEN cached_total_balance(cd)
        ELSE cached_total_balance(cd) + SumOfDays(a, MissingDates(cd, DATE))
ExpectedEntry(a) ==
    LET cd == EntryOf(cacheFile, a)
    IN  IF UpToDate(cd, DATE) THEN cd ELSE NewEntry(ExpectedTotal(a), DATE)

\* C10: a failing account gets no entry in results and does not stop the
\* others: once every task is done each account of the list was processed,
\* and the result and the cache entry of an account that did not fail are
\* what its own cache entry and the range give, whatever happened to the rest.
C10_FailureIsolation ==
    /\ \A w \in Workers :
          (pc[w] = "except" /\ Unique(wallet[w])) =>
             wallet[w] \notin DOMAIN results
    /\ \A a \in Wallets :
          (Unique(a) /\ <<a, "failed">> \in outcome) => a \notin DOMAIN results
    /\ \A a \in Wallets :
          (Unique(a) /\ <<a, "ok">> \in outcome) =>
             /\ a \in DOMAIN results
             /\ results[a] = TWAB(ExpectedTotal(a), TotalDays(DATE), PRICE)
             /\ EntryOf(cache, a) = ExpectedEntry(a)
    /\ (mainPc \in {"join", "shutdown", "report", "save"}
          /\ (unfinished = 0 \/ ~ENABLED RunStep)) =>
          /\ queue = <<>>
          /\ \A i \in DOMAIN wallets :
                <<wallets[i], "ok">> \in outcome
                   \/ <<wallets[i], "failed">> \in outcome

\* C10 witness: every task is done, one account failed and another did not.
C10_Witness ==
    /\ mainPc = "join" /\ unfinished = 0
    /\ \E a, b \in Wallets :
          /\ a # b
          /\ <<a, "failed">> \in outcome /\ a \notin DOMAIN results
          /\ <<b, "ok">> \in outcome /\ b \in DOMAIN results

\* a worker is inside process_wallet (lines 86-121)
InProcessWallet(w) == pc[w] \in {"process_wallet", "batch", "return", "except"}

\* C11: whatever list wallets.txt holds, every queued account is dequeued
\* by exactly one worker, and two workers are never inside process_wallet
\* for the same cache key at the same time.
C11_OneWorkerPerAccount ==
    /\ (mainPc \in {"submit", "join", "shutdown", "report", "save", "exit"}) =>
          Len(queue) + Cardinality({w \in Workers : wallet[w] # NoWallet})
             = unfinished
    /\ \A v, w \in Workers :
          (v # w /\ InProcessWallet(v) /\ InProcessWallet(w)) =>
             lower(wallet[v]) # lower(wallet[w])

\* an account's processing succeeded / failed in this run
Succeeded(a) == <<a, "ok">> \in outcome
Failed(a) == <<a, "failed">> \in outcome

\* C12: the report written has one row per line of the input, in the
\* order of the input, whatever order the workers finished in: the
\* account's TWAB where a processing of it succeeded, 'N/A' where its
\* processing failed; its length is the length of the input.
C12_ReportRows ==
    (mainPc \in {"save", "exit"}) =>
       /\ Len(report) = Len(wallets)
       /\ \A i \in 1..Len(wallets) :
             /\ report[i].Index = i
             /\ report[i].Wallet = wallets[i]
             /\ Succeeded(wallets[i]) =>
                   (report[i].TWAB = str(results[wallets[i]])
                      /\ report[i].TWAB # NA)
             /\ (Failed(wallets[i]) /\ ~Succeeded(wallets[i])) =>
                   report[i].TWAB = NA

\* C12 witness: a report with 'N/A' in its first row and a TWAB in its
\* second.
C12_Witness ==
    /\ mainPc = "save"
    /\ Len(report) = 2
    /\ report[1].TWAB = NA /\ Failed(wallets[1])
    /\ report[2].TWAB # NA /\ Succeeded(wallets[2])

\* C13: when main writes the report or saves the cache, every queued
\* account has been dequeued and its processing has finished, every worker
\* has returned, so that no process_wallet call runs and nothing can
\* update cache or results any more; what is saved is the final cache.
C13_ReportAfterAllDone ==
    /\ (mainPc \in {"report", "save", "exit"}) =>
          /\ queue = <<>> /\ unfinished = 0
          /\ \A w \in Workers : pc[w] = "done" /\ ~InProcessWallet(w)
          /\ \A i \in 1..Len(wallets) :
                Succeeded(wallets[i]) \/ Failed(wallets[i])
          /\ ~ENABLED (\E w \in Workers :
                          BatchReturns(w) \/ WorkerRecord(w))
    /\ (mainPc = "exit") => cacheFile = save_cache(cache)

\* C13 witness: main is about to write the report of a run whose workers
\* updated the cache and the results.
C13_Witness ==
    /\ mainPc = "report"
    /\ cache # load_cache(cacheFile)
    /\ results # EmptyDict

\* some provider fails the probe of this start
ProbeFails == \E web3 \in web3_providers : ~is_connected[web3]

\* C14: when a provider fails the probe, the run gets no further than the
\* connectivity error: nothing is queued, no worker starts, and neither
\* the report nor the cache file is written.
C14_FailFast ==
    /\ [](ProbeFails => (mainPc \in {"connect", "aborted"} /\ NotStarted))
    /\ [][ProbeFails => UNCHANGED fileVars]_vars

\* C14 witness: a run aborted on one failing provider, the other answering,
\* with the report of an earlier run still there.
C14_Witness ==
    /\ mainPc = "aborted"
    /\ ProbeFails
    /\ \E web3 \in web3_providers : is_connected[web3]
    /\ report # <<>>

\* C15: every provider read made for the days of a worker's account goes
\* to the provider the worker was submitted with, and no worker ever reads
\* from two providers.
C15_SingleProvider ==
    /\ \A t \in DOMAIN threads :
          threads[t].pc # "pending" =>
             threads[t].web3 = ProviderOf(threads[t].worker)
    /\ \A r \in providerReads : r[2] = ProviderOf(r[1])
    /\ \A r, q \in providerReads : r[1] = q[1] => r[2] = q[2]

\* C15 witness: two days of one worker's account were processed to the end.
C15_Witness ==
    \E s, t \in DOMAIN threads :
       /\ threads[s].worker = threads[t].worker
       /\ threads[s].current_date # threads[t].current_date
       /\ threads[s].pc = "returned" /\ threads[t].pc = "returned"
       /\ <<threads[s].worker, ProviderOf(threads[s].worker)>>
             \in providerReads

\* C16: the TWAB recorded for a successfully processed account is the sum
\* of the end-of-day balances of the days start_date..DATE, divided by the
\* number of those days, times the price, also when the account is served
\* from a cache entry whose last_checked is later than DATE.
C16_AverageOverRange ==
    \A a \in Wallets :
       (Succeeded(a) /\ a \in DOMAIN results) =>
          results[a] = TWAB(SumOfDays(a, start_date..DATE),
                            TotalDays(DATE), PRICE)

\* C17: a process_day call that fails on a rate-limited head-height or
\* block-timestamp read has made MaxRetries attempts of that read.
C17_TimestampReadRetried ==
    \A t \in DOMAIN threads :
       (/\ threads[t].pc = "raised"
        /\ threads[t].raisedBy \in {"head", "timestamp"}
        /\ threads[t].reply = "429") =>
          threads[t].reads = MaxRetries

\* C18: for each (provider, block) web3.eth.get_block returns a timestamp
\* at most once, however the process_day threads interleave.
C18_ReadOncePerBlock ==
    \A k \in DOMAIN getBlockCalls : getBlockCalls[k] <= 1

\* C19: when get_balance raises an error that is not a rate limit, the
\* failing read is the last one, every earlier read was rate limited and
\* slept on, nothing is slept after the failing read, and get_balance does
\* nothing more; after 0 to 4 rate-limited reads alike.
C19_ErrorPropagates ==
    (gbPc = "raised") =>
       /\ replies[Len(replies)] = "error"
       /\ \A i \in 1..(Len(replies) - 1) : replies[i] = "429"
       /\ attempts = Len(replies) /\ attempts = retry_count + 1
       /\ retry_count \in 0..(MaxRetries - 1)
       /\ sleeps = [i \in 1..retry_count |-> Backoff(i)]
       /\ ~ENABLED NextBalance

\* C19 witness: the error came after four rate-limited reads.
C19_Witness ==
    /\ gbPc = "raised"
    /\ retry_count = 4 /\ attempts = 5
    /\ replies[5] = "error"

\* C20: whatever the head and the target, before block 0's timestamp and
\* after the head's included, find_block_by_timestamp(provider, target, 0,
\* head) returns a block of [0, head].
C20_BlockInRange ==
    (locPc = "returned") =>
       /\ locResult \in 0..HeadOf(chain)
       /\ find_block_by_timestamp(chain, target_timestamp, 0, HeadOf(chain))
             \in 0..HeadOf(chain)

====
